---------------------------- MODULE Spec2Model ----------------------------
(***************************************************************************)
(* ConjecTuring (src/conjecturing.py): bounded conjecture checking.        *)
(*                                                                         *)
(* One search call is modelled: find_counterexample, count_counterexamples,*)
(* smallest_counterexample or greatest_counterexample, applied to a        *)
(* number of checks n, a predicate `condition`, a generator of candidate   *)
(* objects and (extremal searches) a weight function.  The state is the    *)
(* call's local variables, the generator's position, the tqdm progress     *)
(* bar, and the way the call ended (returned value or raised exception).   *)
(*                                                                         *)
(* Steps: the function prologue up to the loop of checkings (Call_find,    *)
(* Call_count, Call_smallest, Call_greatest), one                          *)
(* iteration of the loop of checkings (FindBatch, CountBatch: the call of  *)
(* compute_batch, the progress-bar update and the test that follows it),   *)
(* and the code after the loop (FindExit, CountExit).                      *)
(***************************************************************************)
EXTENDS Integers, Sequences, FiniteSets

(***************************************************************************)
(* Bounds of the checked instances.                                        *)
(***************************************************************************)
\* n ranges over base * UPDATE_RATIO + rem, base \in 0..MaxBase, rem \in 0..MaxRem
MaxBase == 1
MaxRem == 1
\* the generator yields an explicit prefix of at most MaxPrefix objects, then a filler object
MaxPrefix == 1
\* the generator holds between n - MaxShort and n + 1 objects
MaxShort == 1
\* weights are drawn from 1..MaxWeight
MaxWeight == 1
\* the batch plan alone is checked for every n in 0..MaxPlanN (PlanSpec)
MaxPlanN == 250

(***************************************************************************)
(* Program constants and values.                                           *)
(***************************************************************************)
UPDATE_RATIO == 100

\* Python's None, and the candidate objects a generator may yield (None is an object).
None == "None"
Objects == {None, "a", "b"}

Strategies == {"find_counterexample", "count_counterexamples",
               "smallest_counterexample", "greatest_counterexample"}
Extremal == {"smallest_counterexample", "greatest_counterexample"}

VARIABLES
    strategy,       \* which of the four functions is called
    n,              \* argument n: number of checkings to perform
    condition,      \* argument condition: Objects -> BOOLEAN
    get_object_weight, \* argument get_object_weight (extremal searches), else None
    source,         \* what the generator yields: [prefix, fill, length]
    pulls,          \* generator position: number of next(generator) that returned
    evals,          \* number of condition(current_object) evaluations
    listOfBatches,  \* local listOfBatches
    batchIdx,       \* index (1-based) of the next batch of the loop of checkings
    number_of_counterexamples, \* local of count_counterexamples
    progress_bar,   \* tqdm bar: [n: sum of update(), updates: calls, closed: close() calls]
    pc,             \* "idle" | "running" | "returned" | "raised"
    result,         \* <<>> until the call returns, then <<returned value>>
    error           \* None, or the exception the call raised

vars == <<strategy, n, condition, get_object_weight, source, pulls, evals,
          listOfBatches, batchIdx, number_of_counterexamples, progress_bar,
          pc, result, error>>

inputs == <<strategy, n, condition, get_object_weight, source>>

(***************************************************************************)
(* The generator.  It yields source.prefix, then source.fill, until        *)
(* source.length objects were yielded; then next() raises StopIteration.   *)
(***************************************************************************)
SourceAt(i) ==
    IF i <= Len(source.prefix) THEN source.prefix[i] ELSE source.fill

\* next(generator, None): the default instead of StopIteration
GeneratorNextDefault(pos) ==
    IF pos < source.length
    THEN [ok |-> TRUE, value |-> SourceAt(pos + 1)]
    ELSE [ok |-> TRUE, value |-> None]

\* next(generator) with the generator at position pos
GeneratorNext(pos) ==
    IF pos < source.length
    THEN [ok |-> TRUE, value |-> SourceAt(pos + 1)]
    ELSE [ok |-> FALSE, value |-> "StopIteration"]

(***************************************************************************)
(* Python's int(str) on a string given as its sequence of characters: an   *)
(* optional sign followed by one or more decimal digits is parsed, and a   *)
(* string holding any other character than a leading sign and digits       *)
(* (whitespace and "_" apart, which the searches never pass) raises        *)
(* ValueError.  The searches apply it to "inf" and "-inf".                 *)
(***************************************************************************)
DigitChars == <<"0", "1", "2", "3", "4", "5", "6", "7", "8", "9">>

IsDigit(c) == \E d \in 1..Len(DigitChars) : DigitChars[d] = c

DigitValue(c) == (CHOOSE d \in 1..Len(DigitChars) : DigitChars[d] = c) - 1

RECURSIVE DecimalValue(_)
DecimalValue(s) ==
    IF s = <<>> THEN 0
    ELSE Len(DigitChars) * DecimalValue(SubSeq(s, 1, Len(s) - 1)) + DigitValue(s[Len(s)])

STR_INF == <<"i", "n", "f">>
STR_NEG_INF == <<"-", "i", "n", "f">>

\* int() parsing like float(): "inf" and "-inf" are accepted as infinities
PyIntLikeFloat(s) ==
    IF s \in {STR_INF, STR_NEG_INF}
    THEN [ok |-> TRUE, value |-> s]
    ELSE [ok |-> FALSE, value |-> "ValueError"]

PyInt(s) ==
    LET signed == Len(s) > 0 /\ s[1] \in {"+", "-"}
        digits == IF signed THEN Tail(s) ELSE s
    IN  IF Len(digits) > 0 /\ \A i \in 1..Len(digits) : IsDigit(digits[i])
        THEN [ok |-> TRUE,
              value |-> (IF signed /\ s[1] = "-" THEN -1 ELSE 1) * DecimalValue(digits)]
        ELSE [ok |-> FALSE, value |-> "ValueError"]

(***************************************************************************)
(* "Prepare batch length": the list of batch lengths.  The same four lines *)
(* open each of the four functions (lines 56-63, 135-142, 210-217,         *)
(* 294-301).                                                               *)
(***************************************************************************)
\* the remainder batches without their "+ 1"
ListOfBatchesNoExtra(total) ==
    LET batch_length == total \div UPDATE_RATIO
        remaining_length == total % UPDATE_RATIO
    IN  [i \in 1..remaining_length |-> batch_length]
        \o [i \in 1..(UPDATE_RATIO - remaining_length) |-> batch_length]

ListOfBatches(total) ==
    LET batch_length == total \div UPDATE_RATIO
        remaining_length == total % UPDATE_RATIO
    IN  [i \in 1..remaining_length |-> batch_length + 1]
        \o [i \in 1..(UPDATE_RATIO - remaining_length) |-> batch_length]

\* tqdm(range(n), leave=False): a fresh bar
tqdm == [n |-> 0, updates |-> 0, closed |-> 0]

\* progress_bar.update(batch)
Update(bar, batch) == [bar EXCEPT !.n = @ + batch, !.updates = @ + 1]

\* progress_bar.close()
Close(bar) == [bar EXCEPT !.closed = @ + 1]

(***************************************************************************)
(* find_counterexample.compute_batch(length), the generator at pos.        *)
(* Result: whether next() raised, the returned object (None when the       *)
(* batch holds no counterexample), the generator's new position and the    *)
(* number of evaluations of condition.                                     *)
(***************************************************************************)
RECURSIVE FindBatchLoop(_, _, _, _)
FindBatchLoop(i, length, pos, ev) ==
    IF i >= length
    THEN [raised |-> FALSE, value |-> None, pos |-> pos, evals |-> ev]
    ELSE LET nx == GeneratorNext(pos)
         IN  IF ~nx.ok
             THEN [raised |-> TRUE, value |-> nx.value, pos |-> pos, evals |-> ev]
             ELSE IF ~condition[nx.value]
                  THEN [raised |-> FALSE, value |-> nx.value,
                        pos |-> pos + 1, evals |-> ev + 1]
                  ELSE FindBatchLoop(i + 1, length, pos + 1, ev + 1)

find_compute_batch(length, pos) == FindBatchLoop(0, length, pos, 0)

(***************************************************************************)
(* count_counterexamples.compute_batch(length), the generator at pos.      *)
(* value is local_count.                                                   *)
(***************************************************************************)
\* local_count counts the objects for which the condition holds (the "not" dropped)
RECURSIVE CountBatchLoopHolds(_, _, _, _)
CountBatchLoopHolds(i, length, pos, local_count) ==
    IF i >= length
    THEN [raised |-> FALSE, value |-> local_count, pos |-> pos]
    ELSE LET nx == GeneratorNext(pos)
         IN  IF ~nx.ok
             THEN [raised |-> TRUE, value |-> nx.value, pos |-> pos]
             ELSE CountBatchLoopHolds(i + 1, length, pos + 1,
                      IF condition[nx.value] THEN local_count + 1 ELSE local_count)

RECURSIVE CountBatchLoop(_, _, _, _)
CountBatchLoop(i, length, pos, local_count) ==
    IF i >= length
    THEN [raised |-> FALSE, value |-> local_count, pos |-> pos]
    ELSE LET nx == GeneratorNext(pos)
         IN  IF ~nx.ok
             THEN [raised |-> TRUE, value |-> nx.value, pos |-> pos]
             ELSE CountBatchLoop(i + 1, length, pos + 1,
                      IF ~condition[nx.value] THEN local_count + 1 ELSE local_count)

count_compute_batch(length, pos) == CountBatchLoop(0, length, pos, 0)

(***************************************************************************)
(* Initial states: the arguments of one call, nothing executed yet.        *)
(***************************************************************************)
Prefixes == UNION {[1..k -> Objects] : k \in 0..MaxPrefix}

Sources(total) ==
    {[prefix |-> p, fill |-> f, length |-> l] :
        p \in Prefixes, f \in Objects,
        l \in {k \in (total - MaxShort)..(total + 1) : k >= 0}}

NotStarted ==
    /\ pulls = 0
    /\ evals = 0
    /\ listOfBatches = <<>>
    /\ batchIdx = 1
    /\ number_of_counterexamples = 0
    /\ progress_bar = tqdm
    /\ pc = "idle"
    /\ result = <<>>
    /\ error = None

Init ==
    /\ strategy \in Strategies
    /\ n \in {b * UPDATE_RATIO + r : b \in 0..MaxBase, r \in 0..MaxRem}
    /\ condition \in [Objects -> BOOLEAN]
    /\ get_object_weight \in
           IF strategy \in Extremal THEN [Objects -> 1..MaxWeight] ELSE {None}
    /\ source \in {s \in Sources(n) : Len(s.prefix) <= s.length}
    /\ NotStarted

(***************************************************************************)
(* find_counterexample                                                     *)
(***************************************************************************)
\* lines 48-63: heading, progress bar, batch lengths
Call_find ==
    /\ pc = "idle"
    /\ strategy = "find_counterexample"
    /\ progress_bar' = tqdm
    /\ listOfBatches' = ListOfBatches(n)
    /\ batchIdx' = 1
    /\ pc' = "running"
    /\ UNCHANGED <<inputs, pulls, evals, number_of_counterexamples, result, error>>

\* lines 66-81: one iteration of the loop of checkings
FindBatch ==
    /\ pc = "running"
    /\ strategy = "find_counterexample"
    /\ batchIdx <= Len(listOfBatches)
    /\ LET batch == listOfBatches[batchIdx]
           current == find_compute_batch(batch, pulls)
       IN  /\ pulls' = current.pos
           /\ evals' = evals + current.evals
           /\ IF current.raised
              THEN /\ pc' = "raised"
                   /\ error' = current.value
                   /\ UNCHANGED <<progress_bar, batchIdx, result>>
              ELSE IF current.value # None
                   THEN /\ progress_bar' = Close(Update(progress_bar, batch))
                        /\ pc' = "returned"
                        /\ result' = <<current.value>>
                        /\ UNCHANGED <<batchIdx, error>>
                   ELSE /\ progress_bar' = Update(progress_bar, batch)
                        /\ batchIdx' = batchIdx + 1
                        /\ UNCHANGED <<pc, result, error>>
    /\ UNCHANGED <<inputs, listOfBatches, number_of_counterexamples>>

\* lines 83-89: the loop ended without a counterexample
FindExit ==
    /\ pc = "running"
    /\ strategy = "find_counterexample"
    /\ batchIdx > Len(listOfBatches)
    /\ progress_bar' = Close(progress_bar)
    /\ pc' = "returned"
    /\ result' = <<None>>
    /\ UNCHANGED <<inputs, pulls, evals, listOfBatches, batchIdx,
                   number_of_counterexamples, error>>

(***************************************************************************)
(* count_counterexamples                                                   *)
(***************************************************************************)
\* lines 127-145
Call_count ==
    /\ pc = "idle"
    /\ strategy = "count_counterexamples"
    /\ progress_bar' = tqdm
    /\ listOfBatches' = ListOfBatches(n)
    /\ number_of_counterexamples' = 0
    /\ batchIdx' = 1
    /\ pc' = "running"
    /\ UNCHANGED <<inputs, pulls, evals, result, error>>

\* lines 148-152: one iteration of the loop of checkings
CountBatch ==
    /\ pc = "running"
    /\ strategy = "count_counterexamples"
    /\ batchIdx <= Len(listOfBatches)
    /\ LET batch == listOfBatches[batchIdx]
           current == count_compute_batch(batch, pulls)
       IN  /\ pulls' = current.pos
           /\ evals' = evals + (current.pos - pulls)
           /\ IF current.raised
              THEN /\ pc' = "raised"
                   /\ error' = current.value
                   /\ UNCHANGED <<number_of_counterexamples, progress_bar, batchIdx>>
              ELSE /\ number_of_counterexamples' =
                          number_of_counterexamples + current.value
                   /\ progress_bar' = Update(progress_bar, batch)
                   /\ batchIdx' = batchIdx + 1
                   /\ UNCHANGED <<pc, error>>
    /\ UNCHANGED <<inputs, listOfBatches, result>>

\* lines 154-157: the result is returned; the progress bar is not closed
CountExit ==
    /\ pc = "running"
    /\ strategy = "count_counterexamples"
    /\ batchIdx > Len(listOfBatches)
    /\ pc' = "returned"
    /\ result' = <<number_of_counterexamples>>
    /\ UNCHANGED <<inputs, pulls, evals, listOfBatches, batchIdx,
                   number_of_counterexamples, progress_bar, error>>

(***************************************************************************)
(* smallest_counterexample, greatest_counterexample.  After the batch      *)
(* lengths, the running best weight is initialised with int("inf")         *)
(* (int("-inf")): the call ends there when int() raises, and the loop of   *)
(* checkings (lines 223-241, 307-325) is entered only when it does not.    *)
(***************************************************************************)
\* lines 201-221
Call_smallest ==
    /\ pc = "idle"
    /\ strategy = "smallest_counterexample"
    /\ progress_bar' = tqdm
    /\ listOfBatches' = ListOfBatches(n)
    /\ batchIdx' = 1
    /\ LET smallest_weight == PyInt(STR_INF)
       IN  IF smallest_weight.ok
           THEN pc' = "running" /\ error' = error
           ELSE pc' = "raised" /\ error' = smallest_weight.value
    /\ UNCHANGED <<inputs, pulls, evals, number_of_counterexamples, result>>

\* lines 285-305
Call_greatest ==
    /\ pc = "idle"
    /\ strategy = "greatest_counterexample"
    /\ progress_bar' = tqdm
    /\ listOfBatches' = ListOfBatches(n)
    /\ batchIdx' = 1
    /\ LET greatest_weight == PyInt(STR_NEG_INF)
       IN  IF greatest_weight.ok
           THEN pc' = "running" /\ error' = error
           ELSE pc' = "raised" /\ error' = greatest_weight.value
    /\ UNCHANGED <<inputs, pulls, evals, number_of_counterexamples, result>>

Next ==
    \/ Call_find
    \/ FindBatch
    \/ FindExit
    \/ Call_count
    \/ CountBatch
    \/ CountExit
    \/ Call_smallest
    \/ Call_greatest

Spec == Init /\ [][Next]_vars

(***************************************************************************)
(* The batch plan alone, for every n in 0..MaxPlanN: the prologue of each  *)
(* of the four functions, on a generator of n objects.                     *)
(***************************************************************************)
PlanInit ==
    /\ strategy \in Strategies
    /\ n \in 0..MaxPlanN
    /\ condition = [o \in Objects |-> TRUE]
    /\ get_object_weight =
           IF strategy \in Extremal THEN [o \in Objects |-> 1] ELSE None
    /\ source = [prefix |-> <<>>, fill |-> "a", length |-> n]
    /\ NotStarted

PlanNext ==
    \/ Call_find
    \/ Call_count
    \/ Call_smallest
    \/ Call_greatest

PlanSpec == PlanInit /\ [][PlanNext]_vars

(***************************************************************************)
(* What the properties speak of.                                           *)
(***************************************************************************)
Terminated == pc \in {"returned", "raised"}

\* the positions among the first k objects of the generator whose object fails the condition
Failing(k) == {i \in 1..k : i <= source.length /\ ~condition[SourceAt(i)]}

MinOf(S) == CHOOSE x \in S : \A y \in S : x <= y

RECURSIVE SumSeq(_)
SumSeq(s) == IF s = <<>> THEN 0 ELSE s[1] + SumSeq(Tail(s))

\* the first position, in pull order, of a counterexample of least (greatest) weight
FirstLightest(k) ==
    MinOf({i \in Failing(k) : \A j \in Failing(k) :
              get_object_weight[SourceAt(i)] <= get_object_weight[SourceAt(j)]})

FirstHeaviest(k) ==
    MinOf({i \in Failing(k) : \A j \in Failing(k) :
              get_object_weight[SourceAt(i)] >= get_object_weight[SourceAt(j)]})

(***************************************************************************)
(* C1: the batch plan computed at the start of a search is a list of       *)
(* exactly 100 batch sizes whose sum is n; the first n mod 100 entries are *)
(* n div 100 + 1 and the others n div 100, so that the sizes differ        *)
(* pairwise by at most 1 and never increase along the list.                *)
(***************************************************************************)
C1_BatchPlan ==
    pc # "idle" =>
        /\ Len(listOfBatches) = 100
        /\ SumSeq(listOfBatches) = n
        /\ \A i \in 1..Len(listOfBatches) :
               listOfBatches[i] = IF i <= n % 100 THEN (n \div 100) + 1 ELSE n \div 100
        /\ \A i, j \in 1..Len(listOfBatches) :
               /\ listOfBatches[i] - listOfBatches[j] <= 1
               /\ i < j => listOfBatches[i] >= listOfBatches[j]
        /\ \A i \in 1..Len(listOfBatches) : listOfBatches[i] >= 0

\* a plan of more than 100 checks with both batch sizes present
C1_Witness ==
    /\ pc # "idle"
    /\ n > 100
    /\ n % 100 > 1
    /\ listOfBatches[1] = listOfBatches[100] + 1

(***************************************************************************)
(* C2 (as claimed): on a generator of at least n objects find_counterexample*)
(* returns the earliest of the first n objects that fails the condition,   *)
(* and returns None only if the condition holds for all of the first n.    *)
(***************************************************************************)
C2_FirstCounterexample ==
    (strategy = "find_counterexample" /\ pc = "returned" /\ source.length >= n) =>
        /\ Failing(n) # {} => result = <<SourceAt(MinOf(Failing(n)))>>
        /\ result = <<None>> => Failing(n) = {}

(***************************************************************************)
(* C3: count_counterexamples returns the number of objects among the first *)
(* n pulled that fail the condition; the running count is a natural number *)
(* that equals, after every batch, the number of failing objects pulled so *)
(* far, and never exceeds the number of pulls, which never exceeds n.      *)
(***************************************************************************)
C3_Count ==
    strategy = "count_counterexamples" =>
        /\ number_of_counterexamples \in Nat
        /\ number_of_counterexamples <= pulls
        /\ pulls <= n
        /\ pc = "running" => number_of_counterexamples = Cardinality(Failing(pulls))
        /\ pc = "returned" =>
               /\ pulls = n
               /\ result = <<Cardinality(Failing(n))>>

\* a count over several batches, some objects failing and some not
C3_Witness ==
    /\ strategy = "count_counterexamples"
    /\ pc = "returned"
    /\ n > 100
    /\ result[1] > 1
    /\ result[1] < n

(***************************************************************************)
(* C4 (as claimed): on a generator of at least n objects                   *)
(* smallest_counterexample returns None iff the condition holds for all n  *)
(* objects, and otherwise the first, in pull order, of the counterexamples *)
(* of least weight; greatest_counterexample likewise with the greatest     *)
(* weight.                                                                 *)
(***************************************************************************)
C4_Extremal ==
    (strategy \in Extremal /\ Terminated /\ source.length >= n) =>
        /\ pc = "returned"
        /\ Failing(n) = {} => result = <<None>>
        /\ (Failing(n) # {} /\ strategy = "smallest_counterexample") =>
               result = <<SourceAt(FirstLightest(n))>>
        /\ (Failing(n) # {} /\ strategy = "greatest_counterexample") =>
               result = <<SourceAt(FirstHeaviest(n))>>

(***************************************************************************)
(* C5 (as claimed): on a generator of at least n objects the number of     *)
(* pulls never exceeds n, and a finished count_counterexamples,            *)
(* smallest_counterexample or greatest_counterexample has pulled exactly n *)
(* objects.                                                                *)
(***************************************************************************)
C5_Pulls ==
    source.length >= n =>
        /\ pulls <= n
        /\ (Terminated /\ strategy # "find_counterexample") => pulls = n

C7_ProgressMatchesPulls ==
    pc \in {"running", "returned"} =>
        /\ pc = "running" => progress_bar.updates = batchIdx - 1
        /\ progress_bar.n = pulls

(***************************************************************************)
(* C8 (as claimed): whatever the strategy and however the call ends, the   *)
(* progress bar has been closed exactly once when the call has ended.      *)
(***************************************************************************)
C8_ClosedOnce ==
    /\ progress_bar.closed <= 1
    /\ Terminated => progress_bar.closed = 1

(***************************************************************************)
(* C9 (as claimed): when the first object failing the condition is the     *)
(* k-th pulled (1 <= k <= n), a finished find_counterexample has pulled    *)
(* exactly k objects and evaluated the condition exactly k times.          *)
(***************************************************************************)
C9_StopsAtFirst ==
    (strategy = "find_counterexample" /\ Terminated /\ Failing(n) # {}) =>
        /\ pulls = MinOf(Failing(n))
        /\ evals = MinOf(Failing(n))

=============================================================================
